---- MODULE Spec2Model ----
(***************************************************************************)
(* Model of astrodynamics/utils/helper.py: find_nearest_index and          *)
(* get_neighbors_index.  Arrays are numpy arrays of integers, modelled as  *)
(* functions over 0 .. n-1 so that indices are the code's indices.  One    *)
(* behaviour is one call: the call is made, its statements run one after   *)
(* the other, and it ends with a return value or a raised exception.       *)
(***************************************************************************)
EXTENDS Integers, Sequences, FiniteSets, TLC

VARIABLES pc, op, array, value, num_neighbors,
          idx_sorted, sorted_array, idx, idx_nearest, start, end, error

vars == <<pc, op, array, value, num_neighbors,
          idx_sorted, sorted_array, idx, idx_nearest, start, end, error>>

\* Longest array of the bounded inputs.
MaxLen == 4

\* Array elements of the bounded inputs are 0 .. MaxVal.
MaxVal == 3

----------------------------------------------------------------------------
\* Inputs

len(a) == Cardinality(DOMAIN a)

Values == 0 .. MaxVal

\* Query values: every element value, and one value below and above them all.
Queries == -1 .. MaxVal + 1

\* Requested window sizes: negative, zero, valid, and larger than any array.
NumNeighbors == -2 .. MaxLen + 2

BoundedArrays == UNION {[0 .. n - 1 -> Values] : n \in 0 .. MaxLen}

\* The array of the documented example, [10, 1, 7, 3, 9].
ExampleArray == [i \in 0 .. 4 |-> <<10, 1, 7, 3, 9>>[i + 1]]

FindInputs ==
    {<<a, v>> : a \in BoundedArrays, v \in Queries} \cup {<<ExampleArray, 6>>}

NeighborsInputs ==
    {<<a, v, k>> : a \in BoundedArrays, v \in Queries, k \in NumNeighbors}
        \cup {<<ExampleArray, 6, k>> : k \in 1 .. 5}

----------------------------------------------------------------------------
\* Library primitives

abs(x) == IF x < 0 THEN -x ELSE x

max(x, y) == IF x >= y THEN x ELSE y

min(x, y) == IF x <= y THEN x ELSE y

\* The orders in which the positions in S can follow each other so that the
\* values ascend; equal values may come in any order (the default sort kind
\* is not stable).
RECURSIVE SortedOrders(_, _)
SortedOrders(a, S) ==
    IF S = {} THEN {<<>>}
    ELSE UNION {{<<i>> \o rest : rest \in SortedOrders(a, S \ {i})} :
                i \in {j \in S : \A k \in S : a[j] <= a[k]}}

\* np.argsort(a): the index arrays that sort a.
argsort(a) ==
    {[i \in 0 .. len(a) - 1 |-> s[i + 1]] : s \in SortedOrders(a, DOMAIN a)}

\* a[index_array]: fancy indexing.
take(a, indices) == [i \in DOMAIN indices |-> a[indices[i]]]

\* np.searchsorted(a, v, side='left'): binary search between lo and hi for
\* the first position whose element is not less than v.
RECURSIVE bisect_left(_, _, _, _)
bisect_left(a, v, lo, hi) ==
    IF lo >= hi THEN lo
    ELSE LET mid == (lo + hi) \div 2
         IN  IF a[mid] < v THEN bisect_left(a, v, mid + 1, hi)
             ELSE bisect_left(a, v, lo, mid)

searchsorted(a, v) == bisect_left(a, v, 0, len(a))

\* a[i] raises IndexError unless -len(a) <= i < len(a).
IndexError(a, i) == ~(-len(a) <= i /\ i < len(a))

\* a[i] for an index in bounds; a negative index counts from the end.
getitem(a, i) == a[IF i < 0 THEN i + len(a) ELSE i]

----------------------------------------------------------------------------
\* Expressions of the two functions

\* idx >= len(array)
BeyondEnd(i, a) == i >= len(a)

\* The test without abs(): the predecessor never wins.
CloserSigned(v, prev, at) == v - prev < v - at

\* The test with <=: a tie goes to the predecessor.
CloserOrTied(v, prev, at) == abs(v - prev) <= abs(v - at)

\* abs(value - sorted_array[idx - 1]) < abs(value - sorted_array[idx])
Closer(v, prev, at) == abs(v - prev) < abs(v - at)

\* The position in sorted order, not mapped back to the original array.
SortedPosition(order, i) == i

\* idx_sorted[idx]: the original index of the element at sorted position idx.
OriginalIndex(order, i) == getitem(order, i)

\* Window start with the halves swapped: idx - num_neighbors // 2.
WindowStartLate(i, k) == max(0, i - k \div 2)

\* Window start with (num_neighbors + 1) // 2.
WindowStartOffByOne(i, k) == max(0, i - (k + 1) \div 2)

\* start = max(0, idx - (num_neighbors - 1) // 2)
WindowStart(i, k) == max(0, i - (k - 1) \div 2)

\* end without the clamp to len(array).
WindowEndUnclamped(a, s, k) == s + k

\* end = min(len(array), start + num_neighbors)
WindowEnd(a, s, k) == min(len(a), s + k)

\* The re-derived start taken as if end were inclusive.
ShiftedStartInclusive(e, k) == e - k + 1

\* start = end - num_neighbors
ShiftedStart(e, k) == e - k

----------------------------------------------------------------------------
\* State machine

Init ==
    /\ pc = "idle"
    /\ op = "none"
    /\ array = <<>>
    /\ value = 0
    /\ num_neighbors = 0
    /\ idx_sorted = <<>>
    /\ sorted_array = <<>>
    /\ idx = 0
    /\ idx_nearest = 0
    /\ start = 0
    /\ end = 0
    /\ error = "none"

\* A caller calls find_nearest_index(array, value).
CallFindNearestIndex ==
    /\ pc = "idle"
    /\ \E in \in FindInputs :
        /\ array' = in[1]
        /\ value' = in[2]
    /\ op' = "find_nearest_index"
    /\ pc' = "argsort"
    /\ UNCHANGED <<num_neighbors, idx_sorted, sorted_array, idx, idx_nearest,
                   start, end, error>>

\* A caller calls get_neighbors_index(array, central, num_neighbors), which
\* first calls find_nearest_index(array, central).
CallGetNeighborsIndex ==
    /\ pc = "idle"
    /\ \E in \in NeighborsInputs :
        /\ array' = in[1]
        /\ value' = in[2]
        /\ num_neighbors' = in[3]
    /\ op' = "get_neighbors_index"
    /\ pc' = "argsort"
    /\ UNCHANGED <<idx_sorted, sorted_array, idx, idx_nearest, start, end,
                   error>>

\* idx_sorted = np.argsort(array); sorted_array = np.array(array[idx_sorted])
Argsort ==
    /\ pc = "argsort"
    /\ \E order \in argsort(array) :
        /\ idx_sorted' = order
        /\ sorted_array' = take(array, order)
    /\ pc' = "searchsorted"
    /\ UNCHANGED <<op, array, value, num_neighbors, idx, idx_nearest, start,
                   end, error>>

\* idx = np.searchsorted(sorted_array, value, side='left')
Searchsorted ==
    /\ pc = "searchsorted"
    /\ idx' = searchsorted(sorted_array, value)
    /\ pc' = "select"
    /\ UNCHANGED <<op, array, value, num_neighbors, idx_sorted, sorted_array,
                   idx_nearest, start, end, error>>

\* find_nearest_index returns i: to its caller, or into get_neighbors_index.
Return(i) ==
    /\ idx_nearest' = i
    /\ pc' = IF op = "get_neighbors_index" THEN "window" ELSE "done"
    /\ UNCHANGED <<op, array, value, num_neighbors, idx_sorted, sorted_array,
                   idx, start, end, error>>

\* An exception leaves find_nearest_index and, uncaught, get_neighbors_index.
Raise(e) ==
    /\ error' = e
    /\ pc' = "done"
    /\ UNCHANGED <<op, array, value, num_neighbors, idx_sorted, sorted_array,
                   idx, idx_nearest, start, end>>

\* The last branch with the IndexError swallowed: an empty array yields 0.
ReturnLastGuarded ==
    /\ pc = "select"
    /\ BeyondEnd(idx, array)
    /\ IF IndexError(idx_sorted, len(array) - 1)
       THEN Return(0)
       ELSE Return(getitem(idx_sorted, len(array) - 1))

\* if idx >= len(array): return idx_sorted[len(array) - 1]
ReturnLast ==
    /\ pc = "select"
    /\ BeyondEnd(idx, array)
    /\ IF IndexError(idx_sorted, len(array) - 1)
       THEN Raise("IndexError")
       ELSE Return(getitem(idx_sorted, len(array) - 1))

\* elif idx == 0: return idx_sorted[0]
ReturnFirst ==
    /\ pc = "select"
    /\ ~BeyondEnd(idx, array)
    /\ idx = 0
    /\ IF IndexError(idx_sorted, 0)
       THEN Raise("IndexError")
       ELSE Return(getitem(idx_sorted, 0))

\* else, the predecessor is strictly closer: return idx_sorted[idx - 1]
ReturnPreceding ==
    /\ pc = "select"
    /\ ~BeyondEnd(idx, array)
    /\ idx # 0
    /\ Closer(value, getitem(sorted_array, idx - 1), getitem(sorted_array, idx))
    /\ Return(OriginalIndex(idx_sorted, idx - 1))

\* else: return idx_sorted[idx]
ReturnAtInsertion ==
    /\ pc = "select"
    /\ ~BeyondEnd(idx, array)
    /\ idx # 0
    /\ ~Closer(value, getitem(sorted_array, idx - 1), getitem(sorted_array, idx))
    /\ Return(OriginalIndex(idx_sorted, idx))

\* start = max(...); end = min(...); start = end - num_neighbors;
\* return slice(start, end)
Window ==
    /\ pc = "window"
    /\ LET s == WindowStart(idx_nearest, num_neighbors)
           e == WindowEnd(array, s, num_neighbors)
       IN  /\ end' = e
           /\ start' = ShiftedStart(e, num_neighbors)
    /\ pc' = "done"
    /\ UNCHANGED <<op, array, value, num_neighbors, idx_sorted, sorted_array,
                   idx, idx_nearest, error>>

Next ==
    \/ CallFindNearestIndex
    \/ CallGetNeighborsIndex
    \/ Argsort
    \/ Searchsorted
    \/ ReturnLast
    \/ ReturnFirst
    \/ ReturnPreceding
    \/ ReturnAtInsertion
    \/ Window

Spec == Init /\ [][Next]_vars

----------------------------------------------------------------------------
\* Outcomes

\* find_nearest_index has returned idx_nearest (to either caller).
FindReturned == pc \in {"window", "done"} /\ error = "none"

\* get_neighbors_index has returned slice(start, end).
NeighborsReturned ==
    pc = "done" /\ op = "get_neighbors_index" /\ error = "none"

\* The call has ended with an exception.
Raised == pc = "done" /\ error # "none"

dist(i) == abs(array[i] - value)

InRange(i) == start <= i /\ i < end

IsSorted(a) == \A i, j \in DOMAIN a : i < j => a[i] <= a[j]

\* The elements on either side of a query value that is not in the array.
ElementsBelow == {array[i] : i \in {j \in DOMAIN array : array[j] < value}}

ElementsAbove == {array[i] : i \in {j \in DOMAIN array : array[j] > value}}

Largest(S) == CHOOSE x \in S : \A y \in S : y <= x

Smallest(S) == CHOOSE x \in S : \A y \in S : x <= y

\* value lies strictly between two adjacent sorted values.
StrictlyBetween ==
    /\ ElementsBelow # {}
    /\ ElementsAbove # {}
    /\ \A i \in DOMAIN array : array[i] # value

HasDuplicates == \E i, j \in DOMAIN array : i # j /\ array[i] = array[j]

ValidCount == 1 <= num_neighbors /\ num_neighbors <= len(array)

----------------------------------------------------------------------------
\* Properties

\* C1: for a non-empty array, find_nearest_index returns (it does not raise)
\* an index i with 0 <= i < len(array) such that no index j has
\* abs(array[j] - value) < abs(array[i] - value).
C1_NearestOrTied ==
    len(array) > 0 =>
        /\ pc = "done" => error = "none"
        /\ FindReturned =>
            /\ idx_nearest \in DOMAIN array
            /\ \A j \in DOMAIN array : ~(dist(j) < dist(idx_nearest))

\* find_nearest_index returned the predecessor of the insertion point for an
\* unsorted array with duplicates and a value that is not in the array.
C1_Witness ==
    /\ FindReturned
    /\ op = "find_nearest_index"
    /\ ~IsSorted(array)
    /\ HasDuplicates
    /\ StrictlyBetween
    /\ idx_nearest = idx_sorted[idx - 1]

\* C2: for a non-empty array and 1 <= num_neighbors <= len(array),
\* get_neighbors_index returns (it does not raise) a range [start, end) with
\* end - start = num_neighbors and 0 <= start < end <= len(array).
C2_RangeWithinBounds ==
    (op = "get_neighbors_index" /\ pc = "done" /\ len(array) > 0 /\ ValidCount) =>
        /\ error = "none"
        /\ end - start = num_neighbors
        /\ 0 <= start
        /\ start < end
        /\ end <= len(array)

\* get_neighbors_index returned a window that was shifted left at the end of
\* the array.
C2_Witness ==
    /\ NeighborsReturned
    /\ ValidCount
    /\ WindowStart(idx_nearest, num_neighbors) + num_neighbors > len(array)
    /\ start < WindowStart(idx_nearest, num_neighbors)

\* C3: for a non-empty array and num_neighbors > len(array),
\* get_neighbors_index ends with an error and never returns a range.
C3_TooManyNeighborsRaises ==
    (op = "get_neighbors_index" /\ pc = "done" /\ len(array) > 0
        /\ num_neighbors > len(array)) => error # "none"

\* C4: for a non-empty array and num_neighbors <= 0, get_neighbors_index
\* raises an error instead of returning a range.
C4_NonPositiveNeighborsRaises ==
    (op = "get_neighbors_index" /\ pc = "done" /\ len(array) > 0
        /\ num_neighbors <= 0) => error # "none"

\* C5: for an empty array, find_nearest_index and get_neighbors_index both
\* end with an error, for every value and every num_neighbors; no index and
\* no range is returned.
C5_EmptyArrayRaises ==
    (op # "none" /\ len(array) = 0) =>
        /\ pc # "window"
        /\ pc = "done" => error # "none"

\* get_neighbors_index ended with an IndexError for an empty array and a
\* positive num_neighbors.
C5_Witness ==
    /\ Raised
    /\ op = "get_neighbors_index"
    /\ len(array) = 0
    /\ num_neighbors = 1
    /\ error = "IndexError"

\* C6 as stated: for an array sorted ascending and
\* 1 <= num_neighbors <= len(array), no element outside the returned range
\* is strictly closer to central than some element inside it.
C6_Original_NearestK ==
    (NeighborsReturned /\ IsSorted(array) /\ ValidCount) =>
        \A j \in DOMAIN array : \A i \in DOMAIN array :
            (~InRange(j) /\ InRange(i)) => ~(dist(j) < dist(i))

\* C6 amended: for an array sorted ascending and
\* 1 <= num_neighbors <= len(array), the returned range holds an element
\* nearest to central: no element outside the range is strictly closer to
\* central than every element inside it.
C6_RangeHoldsNearest ==
    (NeighborsReturned /\ IsSorted(array) /\ ValidCount) =>
        \E i \in DOMAIN array :
            /\ InRange(i)
            /\ \A j \in DOMAIN array : ~InRange(j) => ~(dist(j) < dist(i))

\* get_neighbors_index returned, for a sorted array, a range that leaves out
\* an element strictly closer than one it holds.
C6_Witness ==
    /\ NeighborsReturned
    /\ IsSorted(array)
    /\ ValidCount
    /\ \E j \in DOMAIN array : \E i \in DOMAIN array :
        ~InRange(j) /\ InRange(i) /\ dist(j) < dist(i)

\* C7: for a non-empty array and value = array[k], find_nearest_index
\* returns an index m with array[m] = array[k].
C7_ExactMatch ==
    (FindReturned /\ \E k \in DOMAIN array : array[k] = value) =>
        /\ idx_nearest \in DOMAIN array
        /\ array[idx_nearest] = value

\* find_nearest_index returned for a value that occurs several times in an
\* unsorted array and is its largest element.
C7_Witness ==
    /\ FindReturned
    /\ op = "find_nearest_index"
    /\ ~IsSorted(array)
    /\ Cardinality({k \in DOMAIN array : array[k] = value}) > 1
    /\ \A k \in DOMAIN array : array[k] <= value
    /\ \E k \in DOMAIN array : array[k] < value

\* C8: when value lies strictly between adjacent sorted values a < b,
\* find_nearest_index returns an index of a when abs(value - a) is strictly
\* less than abs(value - b) and an index of b otherwise, so also when value
\* is as far from a as from b.
C8_TieToInsertionPoint ==
    (FindReturned /\ StrictlyBetween) =>
        LET a == Largest(ElementsBelow)
            b == Smallest(ElementsAbove)
        IN  /\ idx_nearest \in DOMAIN array
            /\ IF abs(value - a) < abs(value - b)
               THEN array[idx_nearest] = a
               ELSE array[idx_nearest] = b

\* find_nearest_index returned an index of b for a value as far from a as
\* from b.
C8_Witness ==
    /\ FindReturned
    /\ StrictlyBetween
    /\ abs(value - Largest(ElementsBelow)) = abs(value - Smallest(ElementsAbove))
    /\ array[idx_nearest] = Smallest(ElementsAbove)

\* C9: for 1 <= num_neighbors <= len(array) and idx the index
\* find_nearest_index returned, start = idx - (num_neighbors - 1) // 2 when
\* that is >= 0 and the window fits, start = 0 when it is negative, and
\* start = len(array) - num_neighbors when the window would run past the
\* end; [10, 1, 7, 3, 9] with central 6 and num_neighbors 3 gives idx 2 and
\* the range [1, 4).
C9_WindowPlacement ==
    (NeighborsReturned /\ len(array) > 0 /\ ValidCount) =>
        LET centred == idx_nearest - (num_neighbors - 1) \div 2
        IN  /\ end = start + num_neighbors
            /\ start = IF centred < 0 THEN 0
                       ELSE IF centred + num_neighbors > len(array)
                            THEN len(array) - num_neighbors
                            ELSE centred
            /\ (array = ExampleArray /\ value = 6 /\ num_neighbors = 3) =>
                (idx_nearest = 2 /\ start = 1 /\ end = 4)

\* get_neighbors_index returned for the documented example.
C9_Witness ==
    /\ NeighborsReturned
    /\ array = ExampleArray
    /\ value = 6
    /\ num_neighbors = 3
    /\ idx_nearest = 2

\* An even-sized window that fits has one more index after idx than before.
C9_EvenWindowReached ==
    /\ NeighborsReturned
    /\ ValidCount
    /\ num_neighbors % 2 = 0
    /\ start = idx_nearest - (num_neighbors - 1) \div 2
    /\ (end - 1) - idx_nearest = (idx_nearest - start) + 1

\* C10: for a non-empty array and 1 <= num_neighbors <= len(array), the
\* range get_neighbors_index returns contains the index that
\* find_nearest_index returned, also when the window was clamped or shifted.
C10_RangeContainsNearest ==
    (NeighborsReturned /\ len(array) > 0 /\ ValidCount) => InRange(idx_nearest)

\* get_neighbors_index returned a window shifted left at the end of the
\* array, for a nearest element in the last position.
C10_Witness ==
    /\ NeighborsReturned
    /\ ValidCount
    /\ num_neighbors > 1
    /\ idx_nearest = len(array) - 1
    /\ start = len(array) - num_neighbors
    /\ start < WindowStart(idx_nearest, num_neighbors)

====
